---- MODULE Spec2Model ----
(***************************************************************************)
(* Model of scipy/integrate/_dde/common.py, class ContinuousExt: the       *)
(* constructor, the scalar query (_call_single), the batched query         *)
(* (__call__) and reorganize.                                              *)
(*                                                                         *)
(* Times are integers on a grid whose spacing is EPS, so that two times    *)
(* are either the same instant or at least EPS apart.  Arrays are TLA+     *)
(* sequences; the operators below take and return Python's 0-based         *)
(* indices.  State vectors are kept symbolic: a value records where it     *)
(* came from (which entry of ys, which interpolant evaluated at which      *)
(* time), so that two results are equal exactly when the code produced     *)
(* them the same way.                                                      *)
(***************************************************************************)
EXTENDS Integers, Sequences, FiniteSets, TLC

\* ------------------------------------------------------------------ bounds
MaxT == 3
MaxLen == 5
MaxQ == 2

EPS == 1

Times == 0..MaxT

HistoryKinds == {"list", "function", "ndarray"}

VARIABLES
    pc,            \* "new", "ready", "returned", "failed"
    arg_ts,        \* constructor argument ts
    arg_n_interp,  \* len(interpolants) as passed to the constructor
    arg_n_ys,      \* len(ys) as passed to the constructor
    err,           \* exception raised by the constructor, or "none"
    history,       \* representation of interpolants[0]
    repeated_t,
    idxs,
    t_discont,
    y_discont,
    ys,
    n_segments,
    ts,
    interpolants,
    t_min,
    t_max,
    ascending,
    ts_sorted,
    op,            \* the call in progress: "none", "single", "batch", "reorganize"
    q,             \* its argument (a scalar as a one-element sequence)
    ret            \* its result

vars == <<pc, arg_ts, arg_n_interp, arg_n_ys, history, err, repeated_t, idxs,
          t_discont, y_discont, ys, n_segments, ts, interpolants, t_min,
          t_max, ascending, ts_sorted, op, q, ret>>

self_vars == <<history, repeated_t, idxs, t_discont, y_discont, ys, n_segments, ts,
               interpolants, t_min, t_max, ascending, ts_sorted>>

arg_vars == <<arg_ts, arg_n_interp, arg_n_ys>>

\* ------------------------------------------------------- array primitives
At(s, i) == s[i + 1]

Last(s) == s[Len(s)]

Range(n) == [i \in 1..n |-> i - 1]

SeqsUpTo(S, n) == UNION {[1..k -> S] : k \in 0..n}

Reversed(s) == [i \in 1..Len(s) |-> s[Len(s) + 1 - i]]

\* s[:n] for n >= 0
Prefix(s, n) == SubSeq(s, 1, IF n < Len(s) THEN n ELSE Len(s))

diff(s) == [i \in 1..(Len(s) - 1) |-> s[i + 1] - s[i]]

\* np.argwhere(np.diff(s) < EPS) + 1, as a sequence of 0-based indices
argwhere_diff(s) ==
    LET d == diff(s)
        hits == {i \in 1..Len(d) : d[i] < EPS}
        RECURSIVE collect(_)
        collect(i) == IF i > Len(d) THEN <<>>
                      ELSE (IF i \in hits THEN <<i>> ELSE <<>>) \o collect(i + 1)
    IN  collect(1)

SeqRange(s) == {s[i] : i \in 1..Len(s)}

\* [x for j, x in enumerate(s) if j not in drop]  /  np.delete(s, drop)
delete(s, drop) ==
    LET RECURSIVE keep(_)
        keep(j) == IF j >= Len(s) THEN <<>>
                   ELSE (IF j \in drop THEN <<>> ELSE <<At(s, j)>>) \o keep(j + 1)
    IN  keep(0)

\* np.insert(s, i, x) for 0 <= i <= len(s)
insert(s, i, x) == SubSeq(s, 1, i) \o <<x>> \o SubSeq(s, i + 1, Len(s))

\* np.searchsorted(arr, key, side): numpy's bisection, which is also what
\* it computes when arr is not sorted
searchsorted(arr, key, side) ==
    LET RECURSIVE bisect(_, _)
        bisect(lo, hi) ==
            IF lo >= hi THEN lo
            ELSE LET mid == lo + ((hi - lo) \div 2)
                     right == IF side = "left" THEN At(arr, mid) < key
                                               ELSE ~(key < At(arr, mid))
                 IN  IF right THEN bisect(mid + 1, hi) ELSE bisect(lo, mid)
    IN  bisect(0, Len(arr))

\* ------------------------------------------------------------ the values
Val(tag, i, t) == [tag |-> tag, i |-> i, t |-> t]

Exc(kind) == [err |-> kind, cols |-> <<>>]

Ok(cols) == [err |-> "none", cols |-> cols]

\* ys[j] of the constructor's argument
ys_value(j) == Val("ys", j, 0)

\* interpolants[0] evaluated at t: the three representations of the history
history_value(t) ==
    IF history = "list" THEN Val("hist_list", 0, t)
    ELSE IF history = "function" THEN Val("hist_fun", 0, t)
    ELSE Val("hist_const", 0, 0)

\* a DenseOutput evaluated at t
dense_value(k, t) == Val("dense", k, t)

\* ------------------------------------------------------------ constructor
all_pos(d) == \A i \in 1..Len(d) : d[i] > 0

all_neg(d) == \A i \in 1..Len(d) : d[i] < 0

incr_decr(s) == all_pos(diff(s)) \/ all_neg(diff(s))

zero_segment(s) == Len(s) = 2 /\ s[1] = Last(s)

\* a check that lets repeated boundaries through
monotonic_ok_nonstrict(s) ==
    \/ zero_segment(s)
    \/ \A i \in 1..(Len(s) - 1) : diff(s)[i] >= 0
    \/ \A i \in 1..(Len(s) - 1) : diff(s)[i] <= 0

monotonic_ok(s) == zero_segment(s) \/ incr_decr(s)

init_repeated(a_ts) == \E i \in 1..(Len(a_ts) - 1) : diff(a_ts)[i] < EPS

init_idxs(a_ts) == IF init_repeated(a_ts) THEN argwhere_diff(a_ts) ELSE <<>>

init_t_discont(a_ts) ==
    LET ix == init_idxs(a_ts) IN [k \in 1..Len(ix) |-> At(a_ts, ix[k])]

\* a table that keeps the value before the jump
init_y_discont_before(a_ts) ==
    LET ix == init_idxs(a_ts) IN [k \in 1..Len(ix) |-> ix[k] - 1]

init_y_discont(a_ts) ==
    LET ix == init_idxs(a_ts) IN [k \in 1..Len(ix) |-> ix[k]]

init_ts(a_ts) == delete(a_ts, SeqRange(init_idxs(a_ts)))

init_ys(a_ts, a_n_ys) == delete(Range(a_n_ys), SeqRange(init_idxs(a_ts)))

\* the exception the constructor raises, "none" when it returns
init_error(a_ts, a_n_interp, a_n_ys) ==
    LET w_ts == init_ts(a_ts)
        w_ys == init_ys(a_ts, a_n_ys)
    IN  IF \E j \in SeqRange(init_idxs(a_ts)) : j >= a_n_ys THEN "IndexError"
        ELSE IF ~monotonic_ok(w_ts) THEN "ValueError"
        ELSE IF Len(w_ts) # a_n_interp + 1 \/ Len(w_ts) # Len(w_ys)
             THEN "ValueError"
        ELSE "none"

\* the lengths of interpolants tried with a_ts: the one that fits a_ts as
\* given, the one that fits what is left of it, one less and one more
InterpolantCounts(a_ts) ==
    LET n == Len(init_ts(a_ts))
    IN  {Len(a_ts) - 1, n - 2, n - 1, n} \cap Nat

\* the lengths of ys tried with a_ts: one short, the same, one long
YsCounts(a_ts) == {Len(a_ts) - 1, Len(a_ts), Len(a_ts) + 1} \cap Nat

Init ==
    /\ pc = "new"
    /\ arg_ts = <<>>
    /\ arg_n_interp = 0
    /\ arg_n_ys = 0
    /\ history = "ndarray"
    /\ err = "none"
    /\ repeated_t = FALSE
    /\ idxs = <<>>
    /\ t_discont = <<>>
    /\ y_discont = <<>>
    /\ ys = <<>>
    /\ n_segments = 0
    /\ ts = <<>>
    /\ interpolants = <<>>
    /\ t_min = 0
    /\ t_max = 0
    /\ ascending = TRUE
    /\ ts_sorted = <<>>
    /\ op = "none"
    /\ q = <<>>
    /\ ret = Ok(<<>>)

ContinuousExt_init ==
    /\ pc = "new"
    /\ \E a_ts \in SeqsUpTo(Times, MaxLen) :
       \E a_n_interp \in InterpolantCounts(a_ts), a_n_ys \in YsCounts(a_ts) :
          LET e == init_error(a_ts, a_n_interp, a_n_ys)
              w_ts == init_ts(a_ts)
          IN  /\ arg_ts' = a_ts
              /\ arg_n_interp' = a_n_interp
              /\ arg_n_ys' = a_n_ys
              /\ err' = e
              /\ IF e # "none"
                 THEN /\ pc' = "failed"
                      /\ UNCHANGED self_vars
                 ELSE /\ pc' = "ready"
                      /\ history' \in HistoryKinds
                      /\ repeated_t' = init_repeated(a_ts)
                      /\ idxs' = init_idxs(a_ts)
                      /\ t_discont' = init_t_discont(a_ts)
                      /\ y_discont' = init_y_discont(a_ts)
                      /\ ys' = init_ys(a_ts, a_n_ys)
                      /\ n_segments' = a_n_interp
                      /\ ts' = w_ts
                      /\ interpolants' = Range(a_n_interp)
                      /\ IF Last(w_ts) >= w_ts[1]
                         THEN /\ t_min' = w_ts[1]
                              /\ t_max' = Last(w_ts)
                              /\ ascending' = TRUE
                              /\ ts_sorted' = w_ts
                         ELSE /\ t_min' = Last(w_ts)
                              /\ t_max' = w_ts[1]
                              /\ ascending' = FALSE
                              /\ ts_sorted' = Reversed(w_ts)
    /\ UNCHANGED <<op, q, ret>>

\* --------------------------------------------------------- scalar query
\* lst[i] of a Python list, for i >= -1
has_item(lst, i) == IF i < 0 THEN Len(lst) + i >= 0 ELSE i < Len(lst)

\* the two sides of the search exchanged
side_swapped == IF ascending THEN "right" ELSE "left"

side == IF ascending THEN "left" ELSE "right"

at_discont(t) ==
    repeated_t /\ \E k \in 1..Len(t_discont) :
                     (t_discont[k] - t < EPS) /\ (t - t_discont[k] < EPS)

\* the segment searchsorted's answer ind is mapped to
segment_of(ind) ==
    LET lo == IF ind - 1 > 0 THEN ind - 1 ELSE 0
        seg == IF lo < n_segments - 1 THEN lo ELSE n_segments - 1
    IN  IF ascending THEN seg ELSE n_segments - 1 - seg

select_segment(t) == segment_of(searchsorted(ts_sorted, t, side))

\* _call_single reading the interpolant list itp
single_on(itp, t) ==
    IF at_discont(t)
    THEN LET ind == searchsorted(t_discont, t, side)
         IN  IF has_item(y_discont, ind)
             THEN Ok(<<ys_value(At(y_discont, ind))>>)
             ELSE Exc("IndexError")
    ELSE LET segment == select_segment(t)
         IN  IF ~has_item(itp, segment) THEN Exc("IndexError")
             ELSE IF segment = 0 THEN Ok(<<history_value(t)>>)
             ELSE Ok(<<dense_value(At(itp, segment), t)>>)

call_single(t) == single_on(interpolants, t)

\* -------------------------------------------------------- batched query
\* the outcomes np.argsort(t) may have: every permutation of the indices
\* that puts t in nondecreasing order
argsort(t) ==
    {o \in [1..Len(t) -> 0..(Len(t) - 1)] :
        /\ \A i, j \in 1..Len(t) : i # j => o[i] # o[j]
        /\ \A i \in 1..(Len(t) - 1) : At(t, o[i]) <= At(t, o[i + 1])}

\* reverse[order] = arange(n)
reverse_of(order) ==
    [c \in 1..Len(order) |-> CHOOSE k \in 0..(Len(order) - 1) : At(order, k) = c - 1]

\* the query is refused for lack of duplicate markers
missing_markers(t) == ~ \E i \in 1..(Len(t) - 1) : diff(t)[i] < EPS

\* the times left after the duplicate entries of the query are deleted
collapsed(t) == IF repeated_t THEN delete(t, SeqRange(argwhere_diff(t))) ELSE t

\* first position of the run of equal segments that contains position p
group_start(segments, p) ==
    LET starts == {g \in 0..p : g = 0 \/ At(segments, g - 1) # At(segments, g)}
    IN  CHOOSE g \in starts : \A h \in starts : h <= g

\* the column computed for position p of the sorted times; t is the
\* collapsed array in the caller's order
history_column(t, t_sorted, segments, p) ==
    history_value(At(t, p - group_start(segments, p)))

column(itp, t, t_sorted, segments, p) ==
    IF At(segments, p) = 0
    THEN history_column(t, t_sorted, segments, p)
    ELSE dense_value(At(itp, At(segments, p)), At(t_sorted, p))

\* the number of columns the loop over the discontinuities inserts
n_reinserted == Len(idxs)

\* ys after the loop that puts the jump values back; k counts the
\* discontinuities handled so far
RECURSIVE reinsert(_, _, _)
reinsert(t_tmp, cols, k) ==
    IF k >= n_reinserted THEN Ok(cols)
    ELSE LET idx == searchsorted(t_tmp, At(t_discont, k), "left") + 1
         IN  IF idx > Len(t_tmp) THEN Exc("IndexError")
             ELSE reinsert(insert(t_tmp, idx, At(t_discont, k)),
                           insert(cols, idx, ys_value(At(y_discont, k))),
                           k + 1)

\* __call__ on an array, reading the interpolant list itp, when argsort
\* answers order
batch_on(itp, t_in, order) ==
    IF repeated_t /\ missing_markers(t_in) THEN Exc("ValueError")
    ELSE LET t == collapsed(t_in)
             t_sorted == [p \in 1..Len(t) |-> At(t, order[p])]
             reverse == reverse_of(order)
             segments == [p \in 1..Len(t) |-> select_segment(t_sorted[p])]
         IN  IF \E p \in 1..Len(t) : ~has_item(itp, segments[p])
             THEN Exc("IndexError")
             ELSE IF Len(t) = 0 THEN Exc("ValueError")
             ELSE LET sorted_cols == [p \in 1..Len(t) |->
                                         column(itp, t, t_sorted, segments, p - 1)]
                      cols == [c \in 1..Len(t) |-> At(sorted_cols, reverse[c])]
                  IN  IF repeated_t THEN reinsert(t_sorted, cols, 0)
                      ELSE Ok(cols)

\* every result the batched query may return for t_in
results_on(itp, t_in) ==
    IF repeated_t /\ missing_markers(t_in) THEN {Exc("ValueError")}
    ELSE {batch_on(itp, t_in, o) : o \in argsort(collapsed(t_in))}

batch_results(t_in) == results_on(interpolants, t_in)

\* ------------------------------------------------------------ reorganize
\* the insertion position itself, without the entry at t0_new
reorganize_idx_short(t0_new) == searchsorted(ts, t0_new, "left")

reorganize_idx(t0_new) == searchsorted(ts, t0_new, "left") + 1

\* -------------------------------------------------------------- actions
CallSingle ==
    /\ pc = "ready"
    /\ \E t \in Times :
          /\ op' = "single"
          /\ q' = <<t>>
          /\ ret' = call_single(t)
    /\ pc' = "returned"
    /\ UNCHANGED <<arg_vars, err, self_vars>>

CallBatch ==
    /\ pc = "ready"
    /\ \E t \in SeqsUpTo(Times, MaxQ) :
          /\ op' = "batch"
          /\ q' = t
          /\ ret' \in batch_results(t)
    /\ pc' = "returned"
    /\ UNCHANGED <<arg_vars, err, self_vars>>

reorganize ==
    /\ pc = "ready"
    /\ \E t0_new \in Times :
          /\ op' = "reorganize"
          /\ q' = <<t0_new>>
          /\ ts' = Prefix(ts, reorganize_idx(t0_new))
          /\ interpolants' = Prefix(interpolants, reorganize_idx(t0_new))
    /\ ret' = Ok(<<>>)
    /\ pc' = "returned"
    /\ UNCHANGED <<arg_vars, err, history, repeated_t, idxs, t_discont,
                   y_discont, ys, n_segments, t_min, t_max, ascending,
                   ts_sorted>>

\* the caller takes the result and is free to call again
Return ==
    /\ pc = "returned"
    /\ pc' = "ready"
    /\ op' = "none"
    /\ q' = <<>>
    /\ ret' = Ok(<<>>)
    /\ UNCHANGED <<arg_vars, err, self_vars>>

Next ==
    \/ ContinuousExt_init
    \/ CallSingle
    \/ CallBatch
    \/ reorganize
    \/ Return

Spec == Init /\ [][Next]_vars

\* The calls without the batched query.  A batched query leaves the
\* instance as it is, so the instances reached are the same as under Spec.
NextSingle ==
    \/ ContinuousExt_init
    \/ CallSingle
    \/ reorganize
    \/ Return

SpecSingle == Init /\ [][NextSingle]_vars

\* ================================================================ claims
Live == pc \in {"ready", "returned"}

Constructed == pc # "new"

\* C1: for every strictly monotonic ts of length >= 2, with len(ts) - 1
\* interpolants and len(ts) entries of ys, the constructor raises nothing
\* and sets t_min = min(ts), t_max = max(ts).
C1_MonotonicAccepted ==
    (/\ Constructed
     /\ Len(arg_ts) >= 2
     /\ incr_decr(arg_ts)
     /\ arg_n_interp = Len(arg_ts) - 1
     /\ arg_n_ys = Len(arg_ts))
    => /\ err = "none"
       /\ \A i \in 1..Len(arg_ts) : t_min <= arg_ts[i] /\ arg_ts[i] <= t_max
       /\ t_min \in SeqRange(arg_ts)
       /\ t_max \in SeqRange(arg_ts)

C3_BatchEqualsSingle ==
    (/\ pc = "returned"
     /\ op = "batch"
     /\ ~repeated_t
     /\ Len(q) >= 1
     /\ \A k \in 1..Len(q) : call_single(q[k]).err = "none")
    => /\ ret.err = "none"
       /\ Len(ret.cols) = Len(q)
       /\ \A k \in 1..Len(q) : ret.cols[k] = call_single(q[k]).cols[1]

\* C4: with discontinuities, a batched query with no two adjacent entries
\* at the same instant is refused with ValueError, in every ordering (here
\* on an instance with at least one segment).
C4_UnmarkedQueryRefused ==
    (/\ pc = "returned"
     /\ op = "batch"
     /\ repeated_t
     /\ n_segments >= 1
     /\ \A i \in 1..(Len(q) - 1) :
           (q[i + 1] - q[i] >= EPS) \/ (q[i] - q[i + 1] >= EPS))
    => ret.err = "ValueError"

\* ts is strictly increasing but for adjacent pairs at the same instant
JumpEncoded(s) ==
    /\ \A i \in 1..(Len(s) - 1) : s[i] <= s[i + 1]
    /\ \A i \in 1..(Len(s) - 2) : s[i] < s[i + 2]
    /\ \E i \in 1..(Len(s) - 1) : s[i] = s[i + 1]

\* C5: for an adjacent pair ts[j-1], ts[j] at the same instant in an
\* otherwise strictly increasing ts, the constructor records (ts[j], ys[j])
\* and a scalar query at that time returns ys[j], also with several
\* discontinuities.
C5_PostJumpValue ==
    (Live /\ JumpEncoded(arg_ts))
    => \A j \in 1..(Len(arg_ts) - 1) :
          At(arg_ts, j) = At(arg_ts, j - 1)
          => /\ \E k \in 1..Len(t_discont) :
                   t_discont[k] = At(arg_ts, j) /\ y_discont[k] = j
             /\ (pc = "returned" /\ op = "single" /\ q[1] = At(arg_ts, j))
                => ret = Ok(<<ys_value(j)>>)

\* a scalar query at the second of two discontinuities has returned
C5_Witness ==
    /\ pc = "returned"
    /\ op = "single"
    /\ JumpEncoded(arg_ts)
    /\ Len(t_discont) = 2
    /\ q[1] = t_discont[2]
    /\ t_discont[1] # t_discont[2]
    /\ ret.err = "none"

\* the value of segment k's interpolant at t
segment_value(k, t) == IF k = 0 THEN history_value(t) ELSE dense_value(k, t)

\* C6 as stated: a scalar query at ts[i], 0 < i <= n_segments, is evaluated
\* with the interpolant of segment i - 1, ascending or descending; a query
\* at ts[0] with that of segment 0.
C6_LowerIndexWins ==
    (pc = "returned" /\ op = "single" /\ n_segments >= 1)
    => \A i \in 0..(Len(ts) - 1) :
          q[1] = At(ts, i)
          => ret = Ok(<<segment_value(IF i > 0 THEN i - 1 ELSE 0, q[1])>>)

\* C6 amended: the same, for a boundary time that is within EPS of no
\* recorded discontinuity time.
C6_LowerIndexWinsOffJumps ==
    (/\ pc = "returned"
     /\ op = "single"
     /\ n_segments >= 1
     /\ \A k \in 1..Len(t_discont) :
           (t_discont[k] - q[1] >= EPS) \/ (q[1] - t_discont[k] >= EPS))
    => \A i \in 0..(Len(ts) - 1) :
          q[1] = At(ts, i)
          => ret = Ok(<<segment_value(IF i > 0 THEN i - 1 ELSE 0, q[1])>>)

\* a scalar query at an inner boundary of a descending instance has returned
C6_Witness ==
    /\ pc = "returned"
    /\ op = "single"
    /\ ~ascending
    /\ n_segments >= 2
    /\ Len(ts) >= 3
    /\ q[1] = At(ts, 1)
    /\ q[1] \notin SeqRange(t_discont)
    /\ ret.err = "none"

\* queries at times up to t0 answer the same before and after the step:
\* what the queries read is left as it was, but for the interpolant list,
\* and they answer the same on the old and on the new list
QueriesKept(t0) ==
    LET early == {t \in Times : t <= t0}
    IN  /\ UNCHANGED <<history, repeated_t, idxs, t_discont, y_discont, ys,
                       n_segments, ascending, ts_sorted>>
        /\ \/ interpolants' = interpolants
           \/ /\ \A t \in early :
                    single_on(interpolants', t) = single_on(interpolants, t)
              /\ \A t \in SeqsUpTo(early, MaxQ) :
                    results_on(interpolants', t) = results_on(interpolants, t)

ReorganizeStep == pc = "ready" /\ pc' = "returned" /\ op' = "reorganize"

C8_ZeroSegmentAccepted ==
    (/\ Constructed
     /\ zero_segment(arg_ts)
     /\ arg_n_interp = 1
     /\ arg_n_ys = 2)
    => /\ err = "none"
       /\ n_segments = 1
       /\ t_min = arg_ts[1]
       /\ t_max = arg_ts[1]

\* C9: after construction and any calls, len(ts) = len(interpolants) + 1
\* and n_segments = len(interpolants).
C9_LengthsAgree ==
    Live => /\ Len(ts) = Len(interpolants) + 1
            /\ n_segments = Len(interpolants)

\* C10: with discontinuities, an accepted batched query returns one column
\* per entry of the query: as many jump values are put back as duplicate
\* entries were collapsed, each right after the column of the query entry
\* at its discontinuity time (here for queries in ascending order).
C10_OneColumnPerEntry ==
    (/\ pc = "returned"
     /\ op = "batch"
     /\ repeated_t
     /\ ret.err = "none"
     /\ \A i \in 1..(Len(q) - 1) : q[i] <= q[i + 1])
    => /\ Len(ret.cols) = Len(q)
       /\ n_reinserted = Len(q) - Len(collapsed(q))
       /\ \A c \in 1..Len(ret.cols) :
             ret.cols[c].tag = "ys"
             => /\ c > 1
                /\ c <= Len(q)
                /\ q[c] = At(arg_ts, ret.cols[c].i)
                /\ q[c - 1] = q[c]
====
